---- MODULE Spec2Model ----
(***************************************************************************)
(* sklift/metrics/metrics.py: uplift_curve, qini_curve and uplift_at_k.    *)
(*                                                                         *)
(* The three functions are pure.  The state is one call: its arguments,    *)
(* the ranking it built, and what it returned or raised.  Arrays are       *)
(* sequences; where the source indexes from 0 the model keeps the 0-based  *)
(* index values and adds 1 when it reads a sequence.  Floating-point       *)
(* values are exact rationals <<numerator, denominator>> in lowest terms   *)
(* with a positive denominator; <<0, 0>> is NaN.                           *)
(***************************************************************************)
EXTENDS Integers, Sequences, FiniteSets, TLC

VARIABLES y_true, uplift, treatment, k, average, call, order, raised,
          counts, values, score

vars == <<y_true, uplift, treatment, k, average, call, order, raised,
          counts, values, score>>

\* ---------------------------------------------------------------- bounds

\* Longest input enumerated.
MaxN == 3

\* Scores the inputs are drawn from: enough for ties and for strictly
\* decreasing rankings of MaxN subjects.
Scores == {0, 1, 2}

\* Outcome labels the inputs are drawn from.
Outcomes == {0, 1}

\* ------------------------------------------------------------- rationals

Abs(x) == IF x < 0 THEN -x ELSE x

RECURSIVE Gcd(_, _)
Gcd(a, b) == IF b = 0 THEN a ELSE Gcd(b, a % b)

NaN == <<0, 0>>

IsNaN(r) == r[2] = 0

\* n / d in lowest terms, d # 0.
Rat(n, d) ==
    LET g == Gcd(Abs(n), Abs(d))
        s == IF d < 0 THEN -1 ELSE 1
    IN  <<(s * n) \div g, (s * d) \div g>>

FromInt(i) == <<i, 1>>

RatSub(a, b) ==
    IF IsNaN(a) \/ IsNaN(b) THEN NaN
    ELSE Rat(a[1] * b[2] - b[1] * a[2], a[2] * b[2])

RatMul(a, b) ==
    IF IsNaN(a) \/ IsNaN(b) THEN NaN
    ELSE Rat(a[1] * b[1], a[2] * b[2])

\* math.ceil of a positive rational.
Ceil(r) == IF r[1] % r[2] = 0 THEN r[1] \div r[2] ELSE (r[1] \div r[2]) + 1

\* ------------------------------------------------------- array primitives

Reverse(s) == [i \in 1..Len(s) |-> s[Len(s) + 1 - i]]

\* a[idx] for an index array of 0-based positions.
Take(a, idx) == [i \in 1..Len(idx) |-> a[idx[i] + 1]]

\* Position at which x goes into the ascending run `sorted` of 0-based
\* indices: after every element whose key is <= key[x].
RECURSIVE InsertStable(_, _, _)
InsertStable(key, sorted, x) ==
    IF sorted = <<>> THEN <<x>>
    ELSE IF key[Head(sorted) + 1] <= key[x + 1]
         THEN <<Head(sorted)>> \o InsertStable(key, Tail(sorted), x)
         ELSE <<x>> \o sorted

\* np.argsort(key, kind="mergesort") over the first n elements: 0-based
\* indices, ascending by key, equal keys in input order.
RECURSIVE ArgsortStable(_, _)
ArgsortStable(key, n) ==
    IF n = 0 THEN <<>>
    ELSE InsertStable(key, ArgsortStable(key, n - 1), n - 1)

\* Mutant: a stable sort by descending score, equal scores in input order.
DescScoreIndicesStable(u) == ArgsortStable([i \in 1..Len(u) |-> 0 - u[i]], Len(u))

\* np.argsort(uplift, kind="mergesort")[::-1]
DescScoreIndices(u) == Reverse(ArgsortStable(u, Len(u)))

\* sklearn.utils.extmath.stable_cumsum: running sums, as floats.
RECURSIVE stable_cumsum(_)
stable_cumsum(a) ==
    IF a = <<>> THEN <<>>
    ELSE LET front == stable_cumsum(SubSeq(a, 1, Len(a) - 1))
         IN  Append(front, (IF front = <<>> THEN 0 ELSE front[Len(front)])
                           + a[Len(a)])

\* np.where(np.diff(u))[0]: the 0-based i with u[i+1] - u[i] # 0, ascending.
RECURSIVE DistinctValueIndices(_, _)
DistinctValueIndices(u, n) ==
    IF n <= 0 THEN <<>>
    ELSE DistinctValueIndices(u, n - 1)
         \o (IF u[n + 1] - u[n] # 0 THEN <<n - 1>> ELSE <<>>)

\* Mutant: one threshold per subject, tied scores not collapsed.
ThresholdIndicesEveryRank(u) == [i \in 1..Len(u) |-> i - 1]

\* np.r_[distinct_value_indices, uplift.size - 1]
ThresholdIndices(u) ==
    Append(DistinctValueIndices(u, Len(u) - 1), Len(u) - 1)

\* y_true_ctrl[treatment == 1] = 0
MaskCtrl(y, t) == [i \in 1..Len(y) |-> IF t[i] = 1 THEN 0 ELSE y[i]]

\* y_true_trmnt[treatment == 0] = 0
MaskTrmnt(y, t) == [i \in 1..Len(y) |-> IF t[i] = 0 THEN 0 ELSE y[i]]

\* Mutant: the division without its where= guard.
SafeDivideUnguarded(a, b) == IF b # 0 THEN Rat(a, b) ELSE NaN

\* np.divide(a, b, out=np.zeros_like(a), where=b != 0), one element.
SafeDivide(a, b) == IF b # 0 THEN Rat(a, b) ELSE FromInt(0)

\* Mutant: the leading point inserted only when the first value is not 0.
StartAtOriginValueOnly(num_all, curve_values) ==
    IF Len(num_all) = 0 \/ curve_values[1] # FromInt(0)
    THEN <<(<<0>> \o num_all), (<<FromInt(0)>> \o curve_values)>>
    ELSE <<num_all, curve_values>>

\* Lines 54-58: prepend (0, 0) unless the curve already starts there.
StartAtOrigin(num_all, curve_values) ==
    IF Len(num_all) = 0 \/ curve_values[1] # FromInt(0) \/ num_all[1] # 0
    THEN <<(<<0>> \o num_all), (<<FromInt(0)>> \o curve_values)>>
    ELSE <<num_all, curve_values>>

\* ------------------------------------------------------------ the curves

\* Mutant: the mean difference scaled by the treated count, not the total.
UpliftValueByTreated(y_trmnt, num_trmnt, y_ctrl, num_ctrl, num_all) ==
    RatMul(RatSub(SafeDivide(y_trmnt, num_trmnt), SafeDivide(y_ctrl, num_ctrl)),
           FromInt(num_trmnt))

\* Lines 51-52, one threshold.
UpliftValue(y_trmnt, num_trmnt, y_ctrl, num_ctrl, num_all) ==
    RatMul(RatSub(SafeDivide(y_trmnt, num_trmnt), SafeDivide(y_ctrl, num_ctrl)),
           FromInt(num_all))

\* Mutant: the control sum not rescaled to the treated count.
QiniValueUnscaled(y_trmnt, num_trmnt, y_ctrl, num_ctrl) ==
    RatSub(FromInt(y_trmnt), FromInt(y_ctrl))

\* Line 109, one threshold.
QiniValue(y_trmnt, num_trmnt, y_ctrl, num_ctrl) ==
    RatSub(FromInt(y_trmnt),
           RatMul(FromInt(y_ctrl), SafeDivide(num_trmnt, num_ctrl)))

uplift_curve(y0, u0, t0) ==
    LET desc_score_indices == DescScoreIndices(u0)
        y == Take(y0, desc_score_indices)
        u == Take(u0, desc_score_indices)
        t == Take(t0, desc_score_indices)
        threshold_indices == ThresholdIndices(u)
        num_trmnt == Take(stable_cumsum(t), threshold_indices)
        y_trmnt == Take(stable_cumsum(MaskTrmnt(y, t)), threshold_indices)
        num_all == [i \in 1..Len(threshold_indices) |-> threshold_indices[i] + 1]
        num_ctrl == [i \in 1..Len(num_all) |-> num_all[i] - num_trmnt[i]]
        y_ctrl == Take(stable_cumsum(MaskCtrl(y, t)), threshold_indices)
        curve_values == [i \in 1..Len(num_all) |->
            UpliftValue(y_trmnt[i], num_trmnt[i], y_ctrl[i], num_ctrl[i], num_all[i])]
    IN  StartAtOrigin(num_all, curve_values)

qini_curve(y0, u0, t0) ==
    LET desc_score_indices == DescScoreIndices(u0)
        y == Take(y0, desc_score_indices)
        t == Take(t0, desc_score_indices)
        u == Take(u0, desc_score_indices)
        threshold_indices == ThresholdIndices(u)
        num_trmnt == Take(stable_cumsum(t), threshold_indices)
        y_trmnt == Take(stable_cumsum(MaskTrmnt(y, t)), threshold_indices)
        num_all == [i \in 1..Len(threshold_indices) |-> threshold_indices[i] + 1]
        num_ctrl == [i \in 1..Len(num_all) |-> num_all[i] - num_trmnt[i]]
        y_ctrl == Take(stable_cumsum(MaskCtrl(y, t)), threshold_indices)
        curve_values == [i \in 1..Len(num_all) |->
            QiniValue(y_trmnt[i], num_trmnt[i], y_ctrl[i], num_ctrl[i])]
    IN  StartAtOrigin(num_all, curve_values)

\* ----------------------------------------------------------- uplift_at_k

RECURSIVE SumSeq(_)
SumSeq(a) == IF a = <<>> THEN 0 ELSE Head(a) + SumSeq(Tail(a))

\* a[m == v]: the elements of a at the positions where the mask m holds v.
RECURSIVE SelectMask(_, _, _)
SelectMask(a, m, v) ==
    IF a = <<>> THEN <<>>
    ELSE (IF Head(m) = v THEN <<Head(a)>> ELSE <<>>)
         \o SelectMask(Tail(a), Tail(m), v)

\* a[:n]
Prefix(a, n) == SubSeq(a, 1, IF n < Len(a) THEN n ELSE Len(a))

\* ndarray.mean(): NaN (with a warning, no exception) on an empty array.
Mean(a) == IF a = <<>> THEN NaN ELSE Rat(SumSeq(a), Len(a))

\* np.argsort(uplift)[::-1]: the default sort is not stable, so the result
\* is any ordering of the 0-based indices with non-increasing scores.
\* Every ordering of the set S of indices along which key is non-increasing.
RECURSIVE DescOrders(_, _)
DescOrders(key, S) ==
    IF S = {} THEN { <<>> }
    ELSE UNION { { <<x>> \o rest : rest \in DescOrders(key, S \ {x}) } :
                 x \in { m \in S : \A z \in S : key[m + 1] >= key[z + 1] } }

ArgsortDesc(u) == DescOrders(u, 0..(Len(u) - 1))

\* np.unique(treatment, return_counts=True)[1]: one count per value present,
\* in ascending order of the value.
UniqueCounts(t) ==
    LET c0 == Len(SelectMask(t, t, 0))
        c1 == Len(SelectMask(t, t, 1))
    IN  (IF c0 > 0 THEN <<c0>> ELSE <<>>) \o (IF c1 > 0 THEN <<c1>> ELSE <<>>)

\* The kinds np.asarray(k).dtype.kind gives: k is <<kind, numerator,
\* denominator>>.  "i": an int; "f": a float (here a dyadic fraction, exact in
\* binary floating point); "b": a bool, neither of the two.
KInts == { <<"i", n, 1>> : n \in (-1)..(MaxN + 1) }

KFloats ==
    { <<"f", -1, 2>>, <<"f", 0, 1>>, <<"f", 1, 4>>, <<"f", 1, 2>>,
      <<"f", 3, 4>>, <<"f", 1, 1>>, <<"f", 2, 1>> }

KOthers == { <<"b", 1, 1>> }

Ks == KInts \cup KFloats \cup KOthers

Averages == {"first", "group", "mean"}

\* k <= c and k >= c for a number c.
KLe(kk, c) == kk[2] <= c * kk[3]

KGe(kk, c) == kk[2] >= c * kk[3]

\* Mutant: an integer k = N accepted.
KOutOfRangeAcceptsN(kk, n_samples) ==
    \/ kk[1] = "i" /\ (~KLe(kk, n_samples) \/ KLe(kk, 0))
    \/ kk[1] = "f" /\ (KLe(kk, 0) \/ KGe(kk, 1))

\* Mutant: the float k = 1.0 accepted.
KOutOfRangeAcceptsOne(kk, n_samples) ==
    \/ kk[1] = "i" /\ (KGe(kk, n_samples) \/ KLe(kk, 0))
    \/ kk[1] = "f" /\ (KLe(kk, 0) \/ ~KLe(kk, 1))

\* Lines 190-191.
KOutOfRange(kk, n_samples) ==
    \/ kk[1] = "i" /\ (KGe(kk, n_samples) \/ KLe(kk, 0))
    \/ kk[1] = "f" /\ (KLe(kk, 0) \/ KGe(kk, 1))

\* Mutant: the fractional window rounded down.
WindowSizeFloor(kk, size) ==
    IF kk[1] = "f" THEN (size * kk[2]) \div kk[3] ELSE kk[2]

\* Lines 200-203 and 210-216: ceil(size * k) for a float, k for an int.
WindowSize(kk, size) ==
    IF kk[1] = "f" THEN Ceil(Rat(size * kk[2], kk[3])) ELSE kk[2]

Raise(exc, what, n) == [raised |-> <<exc, what, n>>, score |-> NaN]

Return(v) == [raised |-> <<"none", "", 0>>, score |-> v]

\* Lines 199-207.
ScoreFirst(y, t, ord, kk) ==
    LET n_size == WindowSize(kk, Len(y))
        yw == Prefix(Take(y, ord), n_size)
        tw == Prefix(Take(t, ord), n_size)
        score_ctrl == Mean(SelectMask(yw, tw, 0))
        score_trmnt == Mean(SelectMask(yw, tw, 1))
    IN  Return(RatSub(score_trmnt, score_ctrl))

\* Mutant: the treatment window checked before the control window.
ScoreGroupTreatmentFirst(y, t, ord, kk, n_samples_ctrl, n_samples_trmnt) ==
    LET n_ctrl == WindowSize(kk, Len(SelectMask(t, t, 0)))
        n_trmnt == WindowSize(kk, Len(SelectMask(t, t, 1)))
        yo == Take(y, ord)
        to == Take(t, ord)
        score_ctrl == Mean(Prefix(SelectMask(yo, to, 0), n_ctrl))
        score_trmnt == Mean(Prefix(SelectMask(yo, to, 1), n_trmnt))
    IN  IF n_trmnt > n_samples_trmnt
        THEN Raise("ValueError", "treatment group", n_samples_ctrl)
        ELSE IF n_ctrl > n_samples_ctrl
        THEN Raise("ValueError", "control group", n_samples_ctrl)
        ELSE Return(RatSub(score_trmnt, score_ctrl))

\* Lines 209-230.
ScoreGroup(y, t, ord, kk, n_samples_ctrl, n_samples_trmnt) ==
    LET n_ctrl == WindowSize(kk, Len(SelectMask(t, t, 0)))
        n_trmnt == WindowSize(kk, Len(SelectMask(t, t, 1)))
        yo == Take(y, ord)
        to == Take(t, ord)
        score_ctrl == Mean(Prefix(SelectMask(yo, to, 0), n_ctrl))
        score_trmnt == Mean(Prefix(SelectMask(yo, to, 1), n_trmnt))
    IN  IF n_ctrl > n_samples_ctrl
        THEN Raise("ValueError", "control group", n_samples_ctrl)
        ELSE IF n_trmnt > n_samples_trmnt
        THEN Raise("ValueError", "treatment group", n_samples_ctrl)
        ELSE Return(RatSub(score_trmnt, score_ctrl))

\* Lines 174-197: what uplift_at_k raises before it computes a score.
Validate(t, kk, avg) ==
    LET treatment_counts == UniqueCounts(t) IN
    IF avg \notin {"first", "group"}
    THEN Raise("ValueError", "average", 0)
    ELSE IF Len(treatment_counts) < 2
    THEN Raise("IndexError", "treatment_counts", Len(treatment_counts))
    ELSE IF KOutOfRange(kk, Len(t))
    THEN Raise("ValueError", "k range", Len(t))
    ELSE IF kk[1] \notin {"i", "f"}
    THEN Raise("ValueError", "k kind", 0)
    ELSE Return(NaN)

\* uplift_at_k, with the ordering np.argsort produced.
uplift_at_k(y, t, ord, kk, avg) ==
    LET treatment_counts == UniqueCounts(t)
        checked == Validate(t, kk, avg)
    IN  IF checked # Return(NaN) THEN checked
        ELSE IF avg = "first" THEN ScoreFirst(y, t, ord, kk)
        ELSE ScoreGroup(y, t, ord, kk, treatment_counts[1], treatment_counts[2])

\* ------------------------------------------------------------- the inputs

SeqsOfLen(S, n) == [1..n -> S]

\* The scenario of the tests: six subjects, strictly decreasing scores
\* (0.9 .. 0.4 written in tenths), alternating groups.
ScenarioInput ==
    [y |-> <<1, 0, 1, 0, 1, 0>>, u |-> <<9, 8, 7, 6, 5, 4>>, t |-> <<1, 0, 1, 0, 1, 0>>]

\* Every input of one length n.
InputsOfLen(n) ==
    { [y |-> y, u |-> u, t |-> t] :
        y \in SeqsOfLen(Outcomes, n),
        u \in SeqsOfLen(Scores, n),
        t \in SeqsOfLen({0, 1}, n) }

\* Three parallel sequences of equal length N >= 1, treatment in {0, 1}.
Inputs == UNION { InputsOfLen(n) : n \in 1..MaxN }

NoError == Return(NaN).raised

Init ==
    /\ \E in \in Inputs \cup {ScenarioInput} :
          /\ y_true = in.y
          /\ uplift = in.u
          /\ treatment = in.t
    /\ k = <<"i", 0, 1>>
    /\ average = "first"
    /\ call = "none"
    /\ order = <<>>
    /\ raised = NoError
    /\ counts = <<>>
    /\ values = <<>>
    /\ score = NaN

CallUpliftCurve ==
    /\ call = "none"
    /\ LET r == uplift_curve(y_true, uplift, treatment)
       IN  /\ counts' = r[1]
           /\ values' = r[2]
    /\ call' = "uplift_curve"
    /\ order' = DescScoreIndices(uplift)
    /\ UNCHANGED <<y_true, uplift, treatment, k, average, raised, score>>

CallQiniCurve ==
    /\ call = "none"
    /\ LET r == qini_curve(y_true, uplift, treatment)
       IN  /\ counts' = r[1]
           /\ values' = r[2]
    /\ call' = "qini_curve"
    /\ order' = DescScoreIndices(uplift)
    /\ UNCHANGED <<y_true, uplift, treatment, k, average, raised, score>>

\* One call of uplift_at_k.  A call that raises during validation does not
\* depend on the ordering, and none is recorded for it.
CallUpliftAtK ==
    /\ call = "none"
    /\ \E kk \in Ks, avg \in Averages :
          \E ord \in (IF Validate(treatment, kk, avg) = Return(NaN)
                      THEN ArgsortDesc(uplift) ELSE { <<>> }) :
             LET r == uplift_at_k(y_true, treatment, ord, kk, avg)
             IN  /\ k' = kk
                 /\ average' = avg
                 /\ order' = ord
                 /\ raised' = r.raised
                 /\ score' = r.score
    /\ call' = "uplift_at_k"
    /\ UNCHANGED <<y_true, uplift, treatment, counts, values>>

Next ==
    \/ CallUpliftCurve
    \/ CallQiniCurve
    \/ CallUpliftAtK

Spec == Init /\ [][Next]_vars

\* The curve builders alone, and uplift_at_k alone, over the same inputs.
NextCurve ==
    \/ CallUpliftCurve
    \/ CallQiniCurve

SpecCurve == Init /\ [][NextCurve]_vars

NextAtK == CallUpliftAtK

SpecAtK == Init /\ [][NextAtK]_vars

\* ----------------------------------------------- reference definitions
\* What the claims speak of, defined on the input itself (sets of subjects,
\* counts and sums), not through the arrays the code builds.

N == Len(y_true)

\* Subjects, by 0-based input index.
Subjects == 0..(N - 1)

ScoreOf(j) == uplift[j + 1]

Group(S, g) == { j \in S : treatment[j + 1] = g }

RECURSIVE SumY(_)
SumY(S) ==
    IF S = {} THEN 0
    ELSE LET x == CHOOSE x \in S : TRUE IN y_true[x + 1] + SumY(S \ {x})

\* sum / count, 0 when the count is 0.
MeanOrZero(S) == IF S = {} THEN FromInt(0) ELSE Rat(SumY(S), Cardinality(S))

\* sum / count, NaN when the count is 0.
MeanOrNaN(S) == IF S = {} THEN NaN ELSE Rat(SumY(S), Cardinality(S))

\* The subjects with fewer than c strictly higher-scored subjects: the c
\* highest-scored ones whenever c is the end of a run of equal scores.
TopByScore(c) ==
    { i \in Subjects : Cardinality({ j \in Subjects : ScoreOf(j) > ScoreOf(i) }) < c }

\* 1-based ranks of the last members of the maximal runs of equal scores.
RunEnds == { Cardinality({ j \in Subjects : ScoreOf(j) >= v }) : v \in { ScoreOf(i) : i \in Subjects } }

\* 1-based rank of subject j in the ranking the call built.
RankOf(j) == CHOOSE p \in 1..Len(order) : order[p] = j

IsCurveCall == call \in {"uplift_curve", "qini_curve"}

CurvePoints == 1..Len(counts)

HasTie == \E i, j \in Subjects : i < j /\ ScoreOf(i) = ScoreOf(j)

UpliftAt(c) ==
    RatMul(RatSub(MeanOrZero(Group(TopByScore(c), 1)),
                  MeanOrZero(Group(TopByScore(c), 0))),
           FromInt(c))

QiniAt(c) ==
    LET T == Group(TopByScore(c), 1)
        C == Group(TopByScore(c), 0)
    IN  RatSub(FromInt(SumY(T)),
               IF C = {} THEN FromInt(0)
               ELSE Rat(SumY(C) * Cardinality(T), Cardinality(C)))

\* ------------------------------------------------------------------- C1
\* C1: for every non-empty input the first point returned by uplift_curve
\* and by qini_curve is exactly (count 0, value 0).
C1_FirstPointIsOrigin ==
    IsCurveCall => /\ Len(counts) >= 1
                   /\ Len(values) = Len(counts)
                   /\ counts[1] = 0
                   /\ values[1] = FromInt(0)

\* A curve whose first computed value is already 0: only the count makes the
\* code insert the leading point.
C1_Witness ==
    /\ call = "uplift_curve"
    /\ Len(counts) >= 3
    /\ values[2] = FromInt(0)
    /\ counts[2] = 1

\* ------------------------------------------------------------------- C2
\* C2: the counts returned by either curve are 0 followed by exactly the
\* 1-based rank of the last member of each maximal run of equal scores of
\* the descending ranking: strictly increasing, ending at N, and no count
\* falls inside a block of tied scores.
C2_CountsAreRunEnds ==
    IsCurveCall =>
        /\ counts[1] = 0
        /\ counts[Len(counts)] = N
        /\ \A i \in 1..(Len(counts) - 1) : counts[i] < counts[i + 1]
        /\ { counts[i] : i \in CurvePoints } = {0} \cup RunEnds
        /\ \A i, j \in Subjects :
              (ScoreOf(i) = ScoreOf(j) /\ RankOf(i) < RankOf(j)) =>
                  \A p \in CurvePoints :
                      ~(RankOf(i) <= counts[p] /\ counts[p] < RankOf(j))

\* A ranking with a tied block and more than one run.
C2_Witness ==
    /\ call = "qini_curve"
    /\ HasTie
    /\ Len(counts) >= 3
    /\ Len(counts) < N + 1

\* ------------------------------------------------------------------- C3
\* C3: no curve value is undefined because of a zero group count.  In
\* uplift_curve a threshold with no treated subject so far has value
\* (0 - control mean) * count and one with no control subject so far has
\* value (treated mean - 0) * count; in qini_curve a threshold with no
\* control subject so far has value = the treated outcome sum so far.  With
\* all treatment = 1 every qini value is the cumulative treated outcome sum
\* and every uplift value is treated mean times the count so far.
C3_DivisionSafety ==
    IsCurveCall =>
        /\ raised = NoError
        /\ \A p \in CurvePoints : ~IsNaN(values[p])
        /\ \A p \in CurvePoints \ {1} :
              LET c == counts[p]
                  T == Group(TopByScore(c), 1)
                  C == Group(TopByScore(c), 0)
              IN  /\ (call = "uplift_curve" /\ T = {}) =>
                        values[p] = RatMul(RatSub(FromInt(0), Rat(SumY(C), Cardinality(C))),
                                           FromInt(c))
                  /\ (call = "uplift_curve" /\ C = {}) =>
                        values[p] = RatMul(Rat(SumY(T), Cardinality(T)), FromInt(c))
                  /\ (call = "qini_curve" /\ C = {}) =>
                        values[p] = FromInt(SumY(T))

\* All subjects treated, with a non-zero curve value.
C3_Witness ==
    /\ call = "uplift_curve"
    /\ N >= 2
    /\ \A j \in Subjects : treatment[j + 1] = 1
    /\ values[Len(values)] # FromInt(0)

\* ------------------------------------------------------------------- C4
SubjectPermutations(n) ==
    { f \in [1..n -> 1..n] : \A i \in 1..n : \E j \in 1..n : f[j] = i }

Permuted(a, f) == [i \in 1..Len(a) |-> a[f[i]]]

LastOf(a) == a[Len(a)]

\* sum(outcome of treated) - sum(outcome of control) * (treated / control)
\* over the whole input, the ratio 0 when there is no control subject.
QiniTotal ==
    LET T == Group(Subjects, 1)
        C == Group(Subjects, 0)
    IN  RatSub(FromInt(SumY(T)),
               RatMul(FromInt(SumY(C)),
                      IF C = {} THEN FromInt(0)
                      ELSE Rat(Cardinality(T), Cardinality(C))))

\* C4: the value of the last point of qini_curve is QiniTotal, for the input
\* as given and for every permutation of its subjects (the three sequences
\* permuted together).
C4_QiniFinalTotal ==
    call = "qini_curve" =>
        /\ LastOf(values) = QiniTotal
        /\ \A f \in SubjectPermutations(N) :
              LastOf(qini_curve(Permuted(y_true, f), Permuted(uplift, f),
                                Permuted(treatment, f))[2]) = QiniTotal

\* Groups of different sizes, a non-zero total, scores not already ranked.
C4_Witness ==
    /\ call = "qini_curve"
    /\ Cardinality(Group(Subjects, 0)) >= 1
    /\ Cardinality(Group(Subjects, 1)) > Cardinality(Group(Subjects, 0))
    /\ SumY(Group(Subjects, 0)) >= 1
    /\ \E i, j \in Subjects : i < j /\ ScoreOf(i) < ScoreOf(j)

\* ------------------------------------------------------------------- C7
\* C7 as stated: in the ranking of the curve builders two subjects with equal
\* score appear in their original relative input order.
C7_TiesKeepInputOrder ==
    IsCurveCall =>
        \A i, j \in Subjects :
            (i < j /\ ScoreOf(i) = ScoreOf(j)) => RankOf(i) < RankOf(j)

\* C7 amended: the ranking is by score descending, and two subjects with
\* equal score appear in the reverse of their input order (the stable
\* ascending sort is reversed as a whole).
C7_TiesReverseInputOrder ==
    IsCurveCall =>
        /\ \A i, j \in Subjects : ScoreOf(i) > ScoreOf(j) => RankOf(i) < RankOf(j)
        /\ \A i, j \in Subjects :
              (i < j /\ ScoreOf(i) = ScoreOf(j)) => RankOf(j) < RankOf(i)

\* A ranking built over an input with a tie.
C7_Witness ==
    /\ call = "uplift_curve"
    /\ HasTie
    /\ Len(order) = N

\* ------------------------------------------------------------------- C9
\* A single forward pass over the ranking from position pos with four
\* running counters, emitting a point whenever the score changes or the
\* pass ends.
RECURSIVE ForwardPass(_, _, _, _, _)
ForwardPass(pos, count_treated, count_control, sum_treated, sum_control) ==
    IF pos > N THEN <<>>
    ELSE LET j == order[pos]
             nt == count_treated + (IF treatment[j + 1] = 1 THEN 1 ELSE 0)
             nc == count_control + (IF treatment[j + 1] = 0 THEN 1 ELSE 0)
             st == sum_treated + (IF treatment[j + 1] = 1 THEN y_true[j + 1] ELSE 0)
             sc == sum_control + (IF treatment[j + 1] = 0 THEN y_true[j + 1] ELSE 0)
             mt == IF nt = 0 THEN FromInt(0) ELSE Rat(st, nt)
             mc == IF nc = 0 THEN FromInt(0) ELSE Rat(sc, nc)
             emit == pos = N \/ ScoreOf(order[pos + 1]) # ScoreOf(j)
         IN  (IF emit THEN << <<pos, RatMul(RatSub(mt, mc), FromInt(pos))>> >> ELSE <<>>)
             \o ForwardPass(pos + 1, nt, nc, st, sc)

\* C9: each point (c, v) of uplift_curve after the leading (0, 0) has
\* v = (St/nt - Sc/nc) * c over the c highest-scored subjects, each quotient
\* 0 when its count is 0, and the points are those of the single forward
\* pass; for the six-subject scenario the counts are 0..6 and the value at
\* count 6 is 6.
C9_UpliftValues ==
    call = "uplift_curve" =>
        /\ \A p \in CurvePoints \ {1} : values[p] = UpliftAt(counts[p])
        /\ [p \in 1..(Len(counts) - 1) |-> <<counts[p + 1], values[p + 1]>>]
              = ForwardPass(1, 0, 0, 0, 0)
        /\ (y_true = ScenarioInput.y /\ uplift = ScenarioInput.u
              /\ treatment = ScenarioInput.t) =>
                 /\ counts = <<0, 1, 2, 3, 4, 5, 6>>
                 /\ values[7] = FromInt(6)

\* The six-subject scenario, computed.
C9_Witness ==
    /\ call = "uplift_curve"
    /\ uplift = ScenarioInput.u
    /\ Len(values) = 7
    /\ values[7] = FromInt(6)

\* ------------------------------------------------- uplift_at_k references

IsAtKCall == call = "uplift_at_k"

\* The call got as far as the check of k: the averaging mode is one of the
\* two, and the per-group counts of lines 184-186 exist.
ReachedKCheck ==
    /\ IsAtKCall
    /\ average \in {"first", "group"}
    /\ raised[1] # "IndexError"

\* The call got past the checks of k.
PassedKCheck ==
    /\ ReachedKCheck
    /\ raised[2] \notin {"k range", "k kind"}

KIsInt == k[1] = "i"

KIsFloat == k[1] = "f"

\* The least integer not below size * k, for a float k = k[2] / k[3].
CeilOfShare(size) ==
    CHOOSE m \in 0..(size * (Abs(k[2]) + 1)) :
        /\ m * k[3] >= size * k[2]
        /\ (m - 1) * k[3] < size * k[2]

ResolvedWindow(size) == IF KIsFloat THEN CeilOfShare(size) ELSE k[2]

\* The subjects at the first n places of the ordering the call used.
FirstRanked(n) == { order[p] : p \in 1..(IF n < Len(order) THEN n ELSE Len(order)) }

\* ------------------------------------------------------------------- C5
\* C5: the check of k raises the range error exactly when k is an integer
\* with k <= 0 or k >= N, or a float with k <= 0 or k >= 1; a k of neither
\* kind raises the error for an invalid k; a float k >= 1 such as 2.0 is
\* rejected as a fraction, never read as a count; every other k passes.
C5_KRangeCheck ==
    ReachedKCheck =>
        /\ (raised = <<"ValueError", "k range", N>>) <=>
              \/ KIsInt /\ (k[2] <= 0 \/ k[2] >= N)
              \/ KIsFloat /\ (k[2] * 1 <= 0 \/ k[2] >= k[3])
        /\ (~KIsInt /\ ~KIsFloat) => raised = <<"ValueError", "k kind", 0>>
        /\ k = <<"f", 2, 1>> => raised[2] = "k range"
        /\ (raised[2] \in {"k range", "k kind"}) =>
              (score = NaN /\ order = <<>>)
        /\ ( \/ KIsInt /\ 0 < k[2] /\ k[2] < N
             \/ KIsFloat /\ 0 < k[2] /\ k[2] < k[3] ) => PassedKCheck

\* The float 2.0 with at least three subjects: rejected, not read as k = 2.
C5_Witness ==
    /\ ReachedKCheck
    /\ k = <<"f", 2, 1>>
    /\ N >= 3
    /\ raised[2] = "k range"

\* ------------------------------------------------------------------- C6
\* treated mean - control mean over the whole input.
OverallMeanDifference ==
    RatSub(MeanOrNaN(Group(Subjects, 1)), MeanOrNaN(Group(Subjects, 0)))

\* C6 as stated: with k = 1.0 both modes return the overall mean outcome of
\* treated subjects minus that of control subjects (read over the inputs
\* where both means exist).
C6_WholePopulationReturnsOverallDifference ==
    (IsAtKCall /\ average \in {"first", "group"} /\ k = <<"f", 1, 1>>
       /\ Group(Subjects, 0) # {} /\ Group(Subjects, 1) # {}) =>
        /\ raised = NoError
        /\ score = OverallMeanDifference

\* C6 amended: with k = 1.0 neither mode returns a score; when both groups
\* are present both modes raise the range error of k (with one group only the
\* lookup of the group counts fails first).
C6_WholePopulationIsRejected ==
    (IsAtKCall /\ average \in {"first", "group"} /\ k = <<"f", 1, 1>>) =>
        /\ raised # NoError
        /\ score = NaN
        /\ (Group(Subjects, 0) # {} /\ Group(Subjects, 1) # {}) =>
              raised = <<"ValueError", "k range", N>>
        /\ (Group(Subjects, 0) = {} \/ Group(Subjects, 1) = {}) =>
              raised[1] = "IndexError"

\* k = 1.0 in mode 'group' over an input with both groups.
C6_Witness ==
    /\ IsAtKCall
    /\ average = "group"
    /\ k = <<"f", 1, 1>>
    /\ Group(Subjects, 0) # {}
    /\ Group(Subjects, 1) # {}
    /\ raised[2] = "k range"

\* ------------------------------------------------------------------- C8
\* C8: in mode 'group', once k has passed its check: if the resolved control
\* window (k, or ceil(k * control size)) exceeds the number of control
\* subjects the call raises a range error naming the control group;
\* otherwise if the resolved treatment window exceeds the number of treated
\* subjects it raises one naming the treatment group; no score is returned
\* in either case; no such error is raised when both windows fit, and never
\* for a float k in (0, 1).
C8_GroupCapacity ==
    (PassedKCheck /\ average = "group") =>
        LET nc == Cardinality(Group(Subjects, 0))
            nt == Cardinality(Group(Subjects, 1))
            wc == ResolvedWindow(nc)
            wt == ResolvedWindow(nt)
        IN  /\ wc > nc => (raised[1] = "ValueError" /\ raised[2] = "control group"
                             /\ score = NaN)
            /\ (wc <= nc /\ wt > nt) =>
                  (raised[1] = "ValueError" /\ raised[2] = "treatment group"
                     /\ score = NaN)
            /\ (wc <= nc /\ wt <= nt) => (raised = NoError /\ ~IsNaN(score))
            /\ KIsFloat => raised = NoError

\* The treatment window overflows while the control window fits.
C8_Witness ==
    /\ PassedKCheck
    /\ average = "group"
    /\ raised[2] = "treatment group"
    /\ k[2] <= Cardinality(Group(Subjects, 0))

\* ------------------------------------------------------------------ C10
\* C10 as stated: in mode 'first' every validated call returns a number, the
\* mean outcome of the treated among the first n subjects by descending
\* score minus the mean outcome of the control among them, n = ceil(k * N)
\* or k; also for windows holding one group only.
C10_FirstReturnsMeanDifference ==
    (PassedKCheck /\ average = "first") =>
        LET W == FirstRanked(ResolvedWindow(N))
        IN  /\ raised = NoError
            /\ ~IsNaN(score)
            /\ score = RatSub(MeanOrZero(Group(W, 1)), MeanOrZero(Group(W, 0)))

\* C10 amended: in mode 'first' every validated call returns without
\* raising; when the window of the first n subjects by descending score
\* (n = ceil(k * N) or k) holds subjects of both groups the score is the
\* treated mean minus the control mean over the window; when it holds one
\* group only the score is NaN.
C10_FirstMeanDifferenceOrNaN ==
    (PassedKCheck /\ average = "first") =>
        LET n == ResolvedWindow(N)
            W == FirstRanked(n)
        IN  /\ raised = NoError
            /\ Len(order) = N
            /\ Cardinality(W) = n
            /\ \A i \in W, j \in Subjects \ W : ScoreOf(i) >= ScoreOf(j)
            /\ (Group(W, 1) # {} /\ Group(W, 0) # {}) =>
                  score = RatSub(Rat(SumY(Group(W, 1)), Cardinality(Group(W, 1))),
                                 Rat(SumY(Group(W, 0)), Cardinality(Group(W, 0))))
            /\ (Group(W, 1) = {} \/ Group(W, 0) = {}) => IsNaN(score)

\* A fractional k whose window is rounded up, holding both groups, with a
\* non-zero score.
C10_Witness ==
    /\ PassedKCheck
    /\ average = "first"
    /\ KIsFloat
    /\ (N * k[2]) % k[3] # 0
    /\ ~IsNaN(score)
    /\ score # FromInt(0)

====
